---- MODULE Spec2Model ----
(***************************************************************************)
(* Model of the concurrent link-discovery and PDF-validation pipeline of   *)
(* src/dod_spending.py: SearchApplication._perform_searches runs one       *)
(* PDFSearcher.find_pdf_links per query on a thread pool; each query fans   *)
(* out PDFSearcher._process_url per search result; a scraped page fans out  *)
(* PDFSearcher._check_direct_pdf per extracted link.  All of them share one *)
(* PDFCache.                                                                *)
(*                                                                          *)
(* A URL is a sequence of tokens.  The first token of an absolute URL is    *)
(* its scheme, host and directory ("http://a.test/"); the following tokens  *)
(* are the file stem, the extension and, when present, a query string.      *)
(***************************************************************************)
EXTENDS Integers, Sequences, FiniteSets, TLC

\* ------------------------------------------------------------------ bounds
\* Cap on the number of search-result URLs the provider returns in one run,
\* all queries together.
MaxUrls == 2

\* Config.max_workers, scaled down (tunable with --workers).
max_workers == 2

\* ------------------------------------------------------- the fixture web
Root == "http://a.test/"

Doc    == <<Root, "doc", ".pdf">>
Report == <<Root, "report", ".pdf">>
Fake   == <<Root, "fake", ".PDF">>
Gone   == <<Root, "gone", ".pdf">>
Page   == <<Root, "page", ".html">>

\* The hyperlink targets (href attributes) of the one HTML page.
PageHrefs == {<<"report", ".pdf">>, Doc, <<"about", ".html">>}

\* URLs the search provider may return.
SearchURLs == {Doc, Fake, Gone, Page}

\* Every URL a request can be made for.
URLs == {Doc, Report, Fake, Gone, Page}

\* Titles of the queries, in the order of the queries dict.
Titles == <<"X", "Y">>

NQ == Len(Titles)

\* What the fixture web answers to a HEAD: status code and the tokens of
\* the Content-Type header.
HeadResponse(url) ==
    IF url = Doc THEN [status_code |-> 200, content_type |-> <<"application/pdf">>]
    ELSE IF url = Report
         THEN [status_code |-> 200, content_type |-> <<"application/pdf", ";charset=binary">>]
    ELSE IF url = Fake THEN [status_code |-> 200, content_type |-> <<"application/pdf">>]
    ELSE IF url = Gone THEN [status_code |-> 404, content_type |-> <<"text/html">>]
    ELSE [status_code |-> 200, content_type |-> <<"text/html">>]

\* The first five bytes of the body the fixture web streams for a GET.
BodyPrefix(url) ==
    IF url \in {Doc, Report} THEN "%PDF-" ELSE "<html"

\* ------------------------------------------------------ pure functions
\* str.lower() on one token.
Lower(tok) ==
    IF tok = ".PDF" THEN ".pdf" ELSE tok

\* s.lower().endswith(".pdf")
EndsWithPdf(s) ==
    /\ Len(s) > 0
    /\ Lower(s[Len(s)]) = ".pdf"

\* urllib.parse.urljoin(base, href): an absolute href replaces the base, a
\* relative one replaces the last path segment of the base.
IsAbsolute(href) ==
    /\ Len(href) > 0
    /\ href[1] = Root

urljoin(base, href) ==
    IF IsAbsolute(href) THEN href ELSE <<base[1]>> \o href

\* The pdf_urls set built by _scrape_page_for_pdfs from the page's anchors.
ExtractPdfUrls(url, hrefs) ==
    {urljoin(url, href) : href \in {h \in hrefs : EndsWithPdf(h)}}

\* "application/pdf" in headers.get("Content-Type", "")
IndicatesPdf(content_type) ==
    \E i \in 1..Len(content_type) : content_type[i] = "application/pdf"

\* The HEAD test of _check_direct_pdf: TRUE when validation goes on.
HeadAccepts(resp) ==
    /\ resp.status_code = 200
    /\ IndicatesPdf(resp.content_type)

\* The content test of _check_direct_pdf.
MagicAccepts(header) ==
    header = "%PDF-"

\* The dict built by _check_direct_pdf.
DirectResult(url) ==
    [url |-> url, source |-> "direct", metadata |-> <<>>, referring_page |-> <<>>]

\* result["referring_page"] = url in _scrape_page_for_pdfs.
WithReferrer(result, page) ==
    [result EXCEPT !.referring_page = page]

\* ------------------------------------------------------------- state
VARIABLES
    loaded,                \* what PDFCache._load_cache read at construction
    memory_cache,          \* PDFCache.memory_cache
    cache_file,            \* the lines of the file behind PDFCache
    validate_pdf_content,  \* Config.validate_pdf_content
    extract_metadata,      \* Config.extract_metadata and PDF_METADATA_AVAILABLE
    qpc,                   \* position of each find_pdf_links call
    search_failed,         \* whether the provider raised for the query
    tasks,                 \* the _process_url futures of each query
    pdf_results,           \* the list find_pdf_links returned
    search_results,        \* the dict _perform_searches builds
    workers,               \* Config.max_workers after --workers
    no_cache,              \* args.no_cache
    calls,                 \* RateLimiter.calls
    timestamps,            \* RateLimiter.timestamps
    clock,                 \* time.time()
    rl_lock,               \* the thread holding RateLimiter.lock, 0 when free
    lpc,                   \* position of each thread in SessionManager.get/head
    wake,                  \* when the thread's time.sleep may return
    acquired,              \* every timestamp ever recorded, in order
    started,               \* when each request was sent, in order
    cache_lock,            \* the thread holding PDFCache.lock, 0 when free
    cpc,                   \* position of each thread in PDFCache.contains/add
    curl,                  \* the url argument of each thread's call
    write_failed,          \* whether _save_cache has logged a failure
    base_url,              \* the url of the page handed to the link extraction
    anchors,               \* the href values of the page's <a> elements
    pdf_urls,              \* the pdf_urls set the extraction built
    result_url,            \* the url argument of _process_url
    branch,                \* the branch _process_url took for result_url
    vurl,                  \* the url each thread runs _check_direct_pdf for
    vpos,                  \* position of each thread's _check_direct_pdf
    reqlog                 \* the requests sent through the session, in order

\* The state of the RateLimiter and of the threads going through it.
limiterVars == <<calls, timestamps, clock, rl_lock, lpc, wake, acquired, started>>

\* The state of the search pipeline.
pipelineVars == <<loaded, memory_cache, cache_file, validate_pdf_content,
                  extract_metadata, qpc, search_failed, tasks, pdf_results,
                  search_results, workers, no_cache>>

\* The state of the threads calling PDFCache.contains and PDFCache.add.
cacheVars == <<cache_lock, cpc, curl, write_failed>>

\* The inputs and outputs of the functions taken on their own.
functionVars == <<base_url, anchors, pdf_urls, result_url, branch>>

\* The threads running one _check_direct_pdf each through the limiter.
validateVars == <<vurl, vpos, reqlog>>

\* What the steps of the search pipeline leave alone.
others == <<workers, no_cache, limiterVars, cacheVars, functionVars, validateVars>>

vars == <<loaded, memory_cache, cache_file, validate_pdf_content, extract_metadata,
          qpc, search_failed, tasks, pdf_results, search_results, others>>

Queries == 1..NQ

\* Marks a title that has no entry in search_results.
NoEntry == "no entry"

\* Positions of one validation (_check_direct_pdf):
\*   pending   submitted, no request made yet
\*   headed    HEAD accepted, content GET not yet made
\*   content   content accepted (or not checked), metadata GET not yet made
\*   ok        returned the result dict
\*   none      returned None
\*   raise     left by an exception
Final == {"ok", "none", "raise"}

\* A validation that is running on a worker thread.
InFlight == {"headed", "content"}

\* The step after the content check of _check_direct_pdf.
AfterContent ==
    IF extract_metadata THEN "content" ELSE "ok"

\* _check_direct_pdf going on whatever the HEAD answered.
CheckHeadUnchecked(url) ==
    {<<"none", TRUE>>,
     <<IF validate_pdf_content THEN "headed" ELSE AfterContent, FALSE>>}

\* _check_direct_pdf up to the end of its HEAD step: the possible positions
\* after session_manager.head, paired with whether the transport failed.
CheckHead(url) ==
    {<<"none", TRUE>>}                                   \* RequestException
    \cup {<<IF HeadAccepts(HeadResponse(url))
            THEN (IF validate_pdf_content THEN "headed" ELSE AfterContent)
            ELSE "none", FALSE>>}

\* _check_direct_pdf with the comparison of the header bytes left out.
CheckContentUnchecked(url) ==
    {<<"none", TRUE>>, <<"raise", TRUE>>, <<AfterContent, FALSE>>}

\* The streamed GET and response.raw.read(5) of _check_direct_pdf.  The
\* read is made on the urllib3 response, whose errors are not
\* requests.RequestException and so leave the function.
CheckContent(url) ==
    {<<"none", TRUE>>}                                   \* RequestException
    \cup {<<"raise", TRUE>>}                             \* error in raw.read
    \cup {<<IF MagicAccepts(BodyPrefix(url)) THEN AfterContent ELSE "none", FALSE>>}

\* The metadata GET of _check_direct_pdf: every exception is caught.
CheckMetadata(url) ==
    {<<"ok", TRUE>>, <<"ok", FALSE>>}

\* One more request of a validation at position v.
CheckStep(url, v) ==
    IF v = "pending" THEN CheckHead(url)
    ELSE IF v = "headed" THEN CheckContent(url)
    ELSE CheckMetadata(url)

\* A fresh _process_url future.
NewTask(url) ==
    [url |-> url, pc |-> "queued", v |-> "pending", links |-> <<>>,
     results |-> <<>>, skipped |-> FALSE, raised |-> FALSE, added |-> FALSE,
     failed |-> FALSE]

\* The sequences of at most n search-result URLs.
ResultLists(n) ==
    UNION {[1..k -> SearchURLs] : k \in 0..n}

\* The orders in which a set can be iterated.
Orders(S) ==
    {f \in [1..Cardinality(S) -> S] : \A i, j \in 1..Cardinality(S) : i # j => f[i] # f[j]}

\* Number of search-result URLs handed out so far.
RECURSIVE SumLen(_)
SumLen(n) ==
    IF n = 0 THEN 0 ELSE Len(tasks[n]) + SumLen(n - 1)

\* A pool that has lent one of its threads to the caller waiting for it.
WorkerFreeShared(unfinished, size) ==
    Cardinality(unfinished) < size - 1

\* ThreadPoolExecutor: the i-th submitted future is taken by a worker once
\* fewer than `size` of the futures submitted before it are unfinished.
WorkerFree(unfinished, size) ==
    Cardinality(unfinished) < size

\* ---------------------------------------------------------- RateLimiter
\* Threads going through the shared limiter.
NThreads == 2

\* Config.rate_limit_calls and Config.rate_limit_period.
rate_limit_calls == 1

rate_limit_period == 2

\* The call budgets tried.
CallBudgets == {1, 2}

\* How many acquisitions a run makes: one more than the largest budget.
MaxAcquire == (CHOOSE c \in CallBudgets : \A d \in CallBudgets : d <= c) + 1

\* The last instant of the clock: long enough for every acquisition to
\* wait a whole period.
MaxClock == rate_limit_period * MaxAcquire

Threads == 1..NThreads

\* The limiter and its threads before any request.
LimiterIdle ==
    /\ calls = rate_limit_calls
    /\ timestamps = <<>>
    /\ clock = 0
    /\ rl_lock = 0
    /\ lpc = [t \in Threads |-> "idle"]
    /\ wake = [t \in Threads |-> 0]
    /\ acquired = <<>>
    /\ started = <<>>

\* No thread is inside PDFCache.contains or PDFCache.add.
CacheIdle ==
    /\ cache_lock = 0
    /\ cpc = [t \in Threads |-> "idle"]
    /\ curl = [t \in Threads |-> <<>>]
    /\ write_failed = FALSE

\* Stands in pdf_urls while the extraction has not run.
NotCalled == <<"not called">>

\* No function is taken on its own.
FunctionIdle ==
    /\ base_url = <<>>
    /\ anchors = {}
    /\ pdf_urls = {NotCalled}
    /\ result_url = <<>>
    /\ branch = "not called"

\* No thread runs a validation on its own.
ValidateIdle ==
    /\ vurl = [t \in Threads |-> <<>>]
    /\ vpos = [t \in Threads |-> "none"]
    /\ reqlog = <<>>

\* The settings a run can start with: Config's defaults, --metadata, and
\* content validation switched off.
Configs ==
    {<<TRUE, FALSE>>, <<TRUE, TRUE>>, <<FALSE, FALSE>>}

\* The state after SearchApplication.__init__ and the first lines of
\* _perform_searches, every query submitted.
PipelineInit ==
    /\ loaded \in SUBSET {Doc}
    /\ memory_cache = loaded
    /\ cache_file = loaded
    /\ \E c \in Configs :
          /\ validate_pdf_content = c[1]
          /\ extract_metadata = c[2]
    /\ qpc = [q \in Queries |-> "submitted"]
    /\ search_failed = [q \in Queries |-> FALSE]
    /\ tasks = [q \in Queries |-> <<>>]
    /\ pdf_results = [q \in Queries |-> <<>>]
    /\ search_results = [q \in Queries |-> NoEntry]

\* The pipeline started with --workers w (or Config's pool size) and with
\* or without --no-cache; the limiter is left out of its steps.
RunInit(w, nc) ==
    /\ PipelineInit
    /\ workers = w
    /\ no_cache = nc
    /\ LimiterIdle
    /\ CacheIdle
    /\ FunctionIdle
    /\ ValidateIdle

\* The pipeline with Config's pool size and without --no-cache.
Init ==
    RunInit(max_workers, FALSE)

\* The anchors of the page the fixture web serves at url.
Html(url) ==
    IF url = Page THEN PageHrefs ELSE {}

Min(a, b) ==
    IF a < b THEN a ELSE b

\* find_pdf_links assigning each future's results instead of extending.
RECURSIVE ExtendAssigns(_, _)
ExtendAssigns(ts, n) ==
    IF n = 0 THEN <<>>
    ELSE IF ts[n].results # <<>> THEN ts[n].results
    ELSE ExtendAssigns(ts, n - 1)

\* Concatenation of the results of the futures 1..n of a query, in
\* submission order (the loop over future_to_url in find_pdf_links).
RECURSIVE Extend(_, _)
Extend(ts, n) ==
    IF n = 0 THEN <<>> ELSE Extend(ts, n - 1) \o ts[n].results

\* The loop over future_to_url in _scrape_page_for_pdfs, when no future
\* raises: the validated links, each with its referring page.
RECURSIVE Scraped(_, _, _)
Scraped(links, n, page) ==
    IF n = 0 THEN <<>>
    ELSE Scraped(links, n - 1, page)
         \o (IF links[n].v = "ok"
             THEN <<WithReferrer(DirectResult(links[n].url), page)>>
             ELSE <<>>)

\* ------------------------------------------------------------ PDFCache
\* PDFCache.contains
contains(url) ==
    url \in memory_cache

\* add losing the url when the file cannot be written.
addDropsOnFailure(url) ==
    \/ /\ memory_cache' = memory_cache \cup {url}
       /\ cache_file' = memory_cache'
    \/ UNCHANGED <<memory_cache, cache_file>>

\* PDFCache.add with _save_cache: the file is rewritten with the whole
\* set, or left as it was when opening it fails (the IOError is logged).
add(url) ==
    /\ memory_cache' = memory_cache \cup {url}
    /\ cache_file' \in {memory_cache', cache_file}

\* The branch of _process_url for an uncached url.
Classify(url) ==
    IF EndsWithPdf(url) THEN "direct" ELSE "page"

\* ------------------------------------------------------------- actions
\* find_pdf_links: the provider returns; one _process_url per result is
\* submitted.
Search(q) ==
    /\ qpc[q] = "submitted"
    /\ WorkerFree({j \in 1..(q - 1) : qpc[j] \in {"submitted", "running"}},
                  Min(NQ, workers))
    /\ \E rs \in ResultLists(MaxUrls - SumLen(NQ)) :
          tasks' = [tasks EXCEPT ![q] = [i \in 1..Len(rs) |-> NewTask(rs[i])]]
    /\ qpc' = [qpc EXCEPT ![q] = "running"]
    /\ UNCHANGED <<others, loaded, memory_cache, cache_file, validate_pdf_content,
                   extract_metadata, search_failed, pdf_results, search_results>>

\* find_pdf_links without the try around the provider call: the exception
\* leaves the future.
SearchRaisesUncaught(q) ==
    /\ qpc[q] = "submitted"
    /\ WorkerFree({j \in 1..(q - 1) : qpc[j] \in {"submitted", "running"}},
                  Min(NQ, workers))
    /\ search_failed' = [search_failed EXCEPT ![q] = TRUE]
    /\ qpc' = [qpc EXCEPT ![q] = "raised"]
    /\ UNCHANGED <<others, loaded, memory_cache, cache_file, validate_pdf_content,
                   extract_metadata, tasks, pdf_results, search_results>>

\* find_pdf_links: the provider raises; the exception is logged and the
\* empty list is returned.
SearchRaises(q) ==
    /\ qpc[q] = "submitted"
    /\ WorkerFree({j \in 1..(q - 1) : qpc[j] \in {"submitted", "running"}},
                  Min(NQ, workers))
    /\ search_failed' = [search_failed EXCEPT ![q] = TRUE]
    /\ pdf_results' = [pdf_results EXCEPT ![q] = <<>>]
    /\ qpc' = [qpc EXCEPT ![q] = "returned"]
    /\ UNCHANGED <<others, loaded, memory_cache, cache_file, validate_pdf_content,
                   extract_metadata, tasks, search_results>>

\* _process_url up to the cache check: a cached URL returns the empty list.
ProcessUrl(q, i) ==
    LET t == tasks[q][i] IN
    /\ qpc[q] = "running"
    /\ t.pc = "queued"
    /\ WorkerFree({j \in 1..(i - 1) : tasks[q][j].pc # "done"}, workers)
    /\ tasks' = [tasks EXCEPT ![q][i] =
          IF contains(t.url)
          THEN [t EXCEPT !.pc = "done", !.skipped = TRUE]
          ELSE [t EXCEPT !.pc = Classify(t.url)]]
    /\ UNCHANGED <<others, loaded, memory_cache, cache_file, validate_pdf_content,
                   extract_metadata, qpc, search_failed, pdf_results, search_results>>

\* One request of _check_direct_pdf for a search result.
DirectRequest(q, i) ==
    LET t == tasks[q][i] IN
    /\ t.pc = "direct"
    /\ t.v \notin Final
    /\ \E o \in CheckStep(t.url, t.v) :
          tasks' = [tasks EXCEPT ![q][i] =
                       [t EXCEPT !.v = o[1], !.failed = t.failed \/ o[2]]]
    /\ UNCHANGED <<others, loaded, memory_cache, cache_file, validate_pdf_content,
                   extract_metadata, qpc, search_failed, pdf_results, search_results>>

\* _process_url after _check_direct_pdf: the result is kept and the URL
\* cached, unless an exception took the except branch.
DirectDone(q, i) ==
    LET t == tasks[q][i] IN
    /\ t.pc = "direct"
    /\ t.v \in Final
    /\ IF t.v = "raise"
       THEN /\ tasks' = [tasks EXCEPT ![q][i] =
                            [t EXCEPT !.pc = "done", !.raised = TRUE]]
            /\ UNCHANGED <<memory_cache, cache_file>>
       ELSE /\ tasks' = [tasks EXCEPT ![q][i] =
                            [t EXCEPT !.pc = "done", !.added = TRUE,
                                      !.results = IF t.v = "ok"
                                                  THEN <<DirectResult(t.url)>>
                                                  ELSE <<>>]]
            /\ add(t.url)
    /\ UNCHANGED <<others, loaded, validate_pdf_content, extract_metadata, qpc, search_failed,
                   pdf_results, search_results>>

\* _scrape_page_for_pdfs: the page is fetched and parsed and one
\* _check_direct_pdf per extracted link is submitted, in the iteration
\* order of the pdf_urls set.
ScrapePage(q, i) ==
    LET t == tasks[q][i] IN
    /\ t.pc = "page"
    /\ \E order \in Orders(ExtractPdfUrls(t.url, Html(t.url))) :
          tasks' = [tasks EXCEPT ![q][i] =
                       [t EXCEPT !.pc = "scrape",
                                 !.links = [k \in 1..Len(order) |->
                                               [url |-> order[k], v |-> "pending"]]]]
    /\ UNCHANGED <<others, loaded, memory_cache, cache_file, validate_pdf_content,
                   extract_metadata, qpc, search_failed, pdf_results, search_results>>

\* _scrape_page_for_pdfs: the GET raises, or raise_for_status does; the
\* RequestException is swallowed and no link is found.
ScrapeFails(q, i) ==
    LET t == tasks[q][i] IN
    /\ t.pc = "page"
    /\ tasks' = [tasks EXCEPT ![q][i] = [t EXCEPT !.pc = "scrape", !.failed = TRUE]]
    /\ UNCHANGED <<others, loaded, memory_cache, cache_file, validate_pdf_content,
                   extract_metadata, qpc, search_failed, pdf_results, search_results>>

\* One request of _check_direct_pdf for a link of a scraped page.
LinkRequest(q, i, k) ==
    LET t == tasks[q][i]
        l == t.links[k] IN
    /\ t.pc = "scrape"
    /\ l.v \notin Final
    /\ l.v = "pending" =>
          WorkerFree({j \in 1..(k - 1) : t.links[j].v \notin Final}, workers)
    /\ \E o \in CheckStep(l.url, l.v) :
          tasks' = [tasks EXCEPT ![q][i] =
                       [t EXCEPT !.links[k].v = o[1], !.failed = t.failed \/ o[2]]]
    /\ UNCHANGED <<others, loaded, memory_cache, cache_file, validate_pdf_content,
                   extract_metadata, qpc, search_failed, pdf_results, search_results>>

\* The end of _scrape_page_for_pdfs and of _process_url for a page: the
\* futures are read in order; an exception of one of them leaves both
\* functions' try blocks, otherwise the validated links are the results
\* and the page is cached.
ScrapeDone(q, i) ==
    LET t == tasks[q][i] IN
    /\ t.pc = "scrape"
    /\ \A k \in 1..Len(t.links) : t.links[k].v \in Final
    /\ IF \E k \in 1..Len(t.links) : t.links[k].v = "raise"
       THEN /\ tasks' = [tasks EXCEPT ![q][i] =
                            [t EXCEPT !.pc = "done", !.raised = TRUE]]
            /\ UNCHANGED <<memory_cache, cache_file>>
       ELSE /\ tasks' = [tasks EXCEPT ![q][i] =
                            [t EXCEPT !.pc = "done", !.added = TRUE,
                                      !.results = Scraped(t.links, Len(t.links), t.url)]]
            /\ add(t.url)
    /\ UNCHANGED <<others, loaded, validate_pdf_content, extract_metadata, qpc, search_failed,
                   pdf_results, search_results>>

\* find_pdf_links: every future has been read; the list is returned.
FindPdfLinksReturns(q) ==
    /\ qpc[q] = "running"
    /\ \A i \in 1..Len(tasks[q]) : tasks[q][i].pc = "done"
    /\ pdf_results' = [pdf_results EXCEPT ![q] = Extend(tasks[q], Len(tasks[q]))]
    /\ qpc' = [qpc EXCEPT ![q] = "returned"]
    /\ UNCHANGED <<others, loaded, memory_cache, cache_file, validate_pdf_content,
                   extract_metadata, search_failed, tasks, search_results>>

\* _perform_searches: the loop over future_to_title reads the next
\* query's future and stores its list under the title; a future that
\* raised is logged and leaves no entry.
PerformSearchesCollects(q) ==
    /\ qpc[q] \in {"returned", "raised"}
    /\ \A j \in 1..(q - 1) : qpc[j] = "reported"
    /\ search_results' = [search_results EXCEPT ![q] =
          IF qpc[q] = "returned" THEN pdf_results[q] ELSE search_results[q]]
    /\ qpc' = [qpc EXCEPT ![q] = "reported"]
    /\ UNCHANGED <<others, loaded, memory_cache, cache_file, validate_pdf_content,
                   extract_metadata, search_failed, tasks, pdf_results>>

Next ==
    \/ \E q \in Queries : Search(q)
    \/ \E q \in Queries : SearchRaises(q)
    \/ \E q \in Queries : \E i \in 1..Len(tasks[q]) : ProcessUrl(q, i)
    \/ \E q \in Queries : \E i \in 1..Len(tasks[q]) : DirectRequest(q, i)
    \/ \E q \in Queries : \E i \in 1..Len(tasks[q]) : DirectDone(q, i)
    \/ \E q \in Queries : \E i \in 1..Len(tasks[q]) : ScrapePage(q, i)
    \/ \E q \in Queries : \E i \in 1..Len(tasks[q]) : ScrapeFails(q, i)
    \/ \E q \in Queries : \E i \in 1..Len(tasks[q]) :
          \E k \in 1..Len(tasks[q][i].links) : LinkRequest(q, i, k)
    \/ \E q \in Queries : \E i \in 1..Len(tasks[q]) : ScrapeDone(q, i)
    \/ \E q \in Queries : FindPdfLinksReturns(q)
    \/ \E q \in Queries : PerformSearchesCollects(q)

Spec == Init /\ [][Next]_vars

TypeOK ==
    /\ loaded \subseteq memory_cache
    /\ memory_cache \subseteq URLs
    /\ cache_file \subseteq memory_cache

\* ------------------------------------------------------ vocabulary
\* The futures of query q.
TaskIds(q) == 1..Len(tasks[q])

\* find_pdf_links has returned for query q.
Returned(q) == qpc[q] \in {"returned", "reported"}

\* The URLs of a result list.
UrlsOf(results) ==
    {results[n].url : n \in 1..Len(results)}

\* The future went past the cache check and processed its URL.
Processed(t) ==
    /\ t.pc # "queued"
    /\ ~t.skipped

\* This step makes an HTTP request (HEAD or GET) for url.
RequestsUrl(url) ==
    \E q \in Queries : \E i \in TaskIds(q) :
       LET t == tasks[q][i] IN
       \/ /\ t.url = url
          /\ t.pc = "direct"
          /\ tasks'[q][i].v # t.v
       \/ /\ t.url = url
          /\ t.pc = "page"
          /\ tasks'[q][i].pc = "scrape"
       \/ /\ t.pc = "scrape"
          /\ \E k \in 1..Len(t.links) :
                /\ t.links[k].url = url
                /\ tasks'[q][i].links[k].v # t.links[k].v

\* What the fixture web makes of a URL when no request fails.
Validates(url) ==
    /\ HeadAccepts(HeadResponse(url))
    /\ validate_pdf_content => MagicAccepts(BodyPrefix(url))

\* How many futures called cache.add(url).
AddCount(url) ==
    Cardinality({qi \in Queries \X (1..MaxUrls + 1) :
                    /\ qi[2] \in TaskIds(qi[1])
                    /\ tasks[qi[1]][qi[2]].url = url
                    /\ tasks[qi[1]][qi[2]].added})

\* ------------------------------------------------------------- claims
\* C1: no network request (HEAD or GET) is made for a URL that is in the
\* cache, whether the URL came from the search provider or from a link on
\* a scraped page.
C1_NoRequestForCachedUrl ==
    [][\A url \in URLs : RequestsUrl(url) => url \notin memory_cache]_vars

\* C2: a URL that two concurrently run queries both got from the provider
\* is processed by one of them only; the other skips it as cached.
C2_SharedUrlProcessedOnce ==
    \A q1, q2 \in Queries : \A i \in TaskIds(q1) : \A j \in TaskIds(q2) :
       (q1 # q2 /\ tasks[q1][i].url = tasks[q2][j].url)
          => ~(Processed(tasks[q1][i]) /\ Processed(tasks[q2][j]))

\* C3: once find_pdf_links has returned, every search-result URL that was
\* not skipped as cached is in the cache, whatever its processing came to.
C3_ProcessedUrlCached ==
    \A q \in Queries : Returned(q) =>
       \A i \in TaskIds(q) :
          ~tasks[q][i].skipped => tasks[q][i].url \in memory_cache

\* C4: the result list of a query holds no URL twice.
C4_NoDuplicateUrls ==
    \A q \in Queries : \A m, n \in 1..Len(pdf_results[q]) :
       m # n => pdf_results[q][m].url # pdf_results[q][n].url

\* The search-result URLs of query q.
SearchUrls(q) ==
    {tasks[q][i].url : i \in TaskIds(q)}

\* No request made for query q failed.
NoFailure(q) ==
    \A i \in TaskIds(q) : ~tasks[q][i].failed

\* Query q ran on an empty cache that no other query fed.
RanAlone(q) ==
    /\ loaded = {}
    /\ \A q2 \in Queries \ {q} : tasks[q2] = <<>>

\* The PDFs a query should find: its .pdf search results that validate and
\* the .pdf links of its pages, resolved against the page, that validate.
Expected(q) ==
    {url \in SearchUrls(q) : EndsWithPdf(url) /\ Validates(url)}
    \cup {link \in UNION {ExtractPdfUrls(page, Html(page)) :
                            page \in {url \in SearchUrls(q) : ~EndsWithPdf(url)}} :
            Validates(link)}

\* C5: a query whose provider call raised returns the empty list without
\* raising and without submitting or caching anything, the report maps its
\* title to the empty list, and every other reported query holds the
\* results of its own futures.
C5_ProviderFailureIsolated ==
    \A q \in Queries : search_failed[q] =>
       /\ Returned(q)
       /\ pdf_results[q] = <<>>
       /\ tasks[q] = <<>>
       /\ qpc[q] = "reported" => search_results[q] = <<>>
       /\ \A q2 \in Queries \ {q} :
             qpc[q2] = "reported" =>
                /\ search_results[q2] # NoEntry
                /\ UrlsOf(search_results[q2])
                      = UNION {UrlsOf(tasks[q2][i].results) : i \in TaskIds(q2)}

C5_Witness ==
    \E q, q2 \in Queries :
       /\ search_failed[q]
       /\ qpc[q] = "reported"
       /\ ~search_failed[q2]
       /\ qpc[q2] = "reported"
       /\ search_results[q2] # <<>>

\* C6: a failure while processing one URL or validating one link loses no
\* sibling: every search result and every link of a page that validated is
\* in the list the query returns.
C6_SiblingResultsKept ==
    \A q \in Queries : Returned(q) =>
       \A i \in TaskIds(q) :
          LET t == tasks[q][i] IN
          /\ (t.pc = "done" /\ t.v = "ok") => t.url \in UrlsOf(pdf_results[q])
          /\ \A k \in 1..Len(t.links) :
                t.links[k].v = "ok" => t.links[k].url \in UrlsOf(pdf_results[q])

\* C7: the validation never raises; a transport exception during the HEAD,
\* the streamed GET or the read of the first bytes gives the negative result.
C7_ValidationNeverRaises ==
    \A q \in Queries : \A i \in TaskIds(q) :
       /\ tasks[q][i].v # "raise"
       /\ \A k \in 1..Len(tasks[q][i].links) : tasks[q][i].links[k].v # "raise"

\* C8: every recorded result was validated: its HEAD answers 200 with a PDF
\* content type and, with content validation on, its body starts with the
\* PDF magic prefix.
C8_ResultsValidated ==
    \A q \in Queries :
       /\ \A url \in UrlsOf(pdf_results[q]) : Validates(url)
       /\ search_results[q] # NoEntry =>
             \A url \in UrlsOf(search_results[q]) : Validates(url)

C8_Witness ==
    /\ validate_pdf_content
    /\ \E q, q2 \in Queries :
          /\ qpc[q] = "reported"
          /\ qpc[q2] = "reported"
          /\ \E i \in TaskIds(q) :
                /\ tasks[q][i].url = Fake
                /\ tasks[q][i].added
                /\ ~tasks[q][i].failed
          /\ search_results[q2] # <<>>

\* C9: a query run alone on an empty cache and without failures returns
\* exactly the expected PDFs (scenario A: doc.pdf and report.pdf).
C9_ResultsAreExpected ==
    \A q \in Queries :
       (Returned(q) /\ RanAlone(q) /\ NoFailure(q))
          => UrlsOf(pdf_results[q]) = Expected(q)

C9_Witness ==
    \E q \in Queries :
       /\ Returned(q)
       /\ RanAlone(q)
       /\ NoFailure(q)
       /\ [i \in TaskIds(q) |-> tasks[q][i].url] = <<Doc, Page>>
       /\ UrlsOf(pdf_results[q]) = {Doc, Report}

\* C10: every URL of a returned result list, a scraped link included, was
\* added to the cache exactly once.
C10_ResultUrlCachedOnce ==
    \A q \in Queries : Returned(q) =>
       \A url \in UrlsOf(pdf_results[q]) : AddCount(url) = 1

\* ---------------------------------------------------------- RateLimiter
\* The pipeline at rest, for the specifications that are not about it.
PipelineIdle ==
    /\ loaded = {}
    /\ memory_cache = {}
    /\ cache_file = {}
    /\ validate_pdf_content = TRUE
    /\ extract_metadata = FALSE
    /\ qpc = [q \in Queries |-> "submitted"]
    /\ search_failed = [q \in Queries |-> FALSE]
    /\ tasks = [q \in Queries |-> <<>>]
    /\ pdf_results = [q \in Queries |-> <<>>]
    /\ search_results = [q \in Queries |-> NoEntry]
    /\ workers = max_workers
    /\ no_cache = FALSE

\* RateLimiter.__init__ for some call budget, shared by all threads.
LimiterInit ==
    /\ PipelineIdle
    /\ CacheIdle
    /\ FunctionIdle
    /\ ValidateIdle
    /\ calls \in CallBudgets
    /\ timestamps = <<>>
    /\ clock = 0
    /\ rl_lock = 0
    /\ lpc = [t \in Threads |-> "idle"]
    /\ wake = [t \in Threads |-> 0]
    /\ acquired = <<>>
    /\ started = <<>>

\* [t for t in self.timestamps if now - t < self.period]
Recent(ts, now) ==
    SelectSeq(ts, LAMBDA x : now - x < rate_limit_period)

\* RateLimiter.__enter__ up to the sleep: the lock is taken, now is read,
\* the old timestamps are dropped and the sleep time is computed.
RateLimiterEnter(t) ==
    LET now == clock
        kept == Recent(timestamps, now)
        sleep_time == IF Len(kept) >= calls
                      THEN rate_limit_period - (now - kept[1])
                      ELSE 0
    IN
    /\ lpc[t] = "idle"
    /\ rl_lock = 0
    /\ Len(acquired) < MaxAcquire
    /\ rl_lock' = t
    /\ timestamps' = kept
    /\ wake' = [wake EXCEPT ![t] = IF sleep_time > 0 THEN now + sleep_time ELSE now]
    /\ lpc' = [lpc EXCEPT ![t] = IF sleep_time > 0 THEN "sleeping" ELSE "locked"]
    /\ UNCHANGED <<pipelineVars, cacheVars, functionVars, validateVars, calls, clock, acquired, started>>

\* __enter__ appending without having slept.
RateLimiterRecordEarly(t) ==
    /\ lpc[t] \in {"sleeping", "locked"}
    /\ timestamps' = Append(timestamps, clock)
    /\ acquired' = Append(acquired, clock)
    /\ rl_lock' = 0
    /\ lpc' = [lpc EXCEPT ![t] = "acquired"]
    /\ UNCHANGED <<pipelineVars, cacheVars, functionVars, validateVars, calls, clock, wake, started>>

\* The rest of __enter__: time.sleep has returned, time.time() is appended
\* and the lock released.
RateLimiterRecord(t) ==
    /\ lpc[t] \in {"sleeping", "locked"}
    /\ clock >= wake[t]
    /\ timestamps' = Append(timestamps, clock)
    /\ acquired' = Append(acquired, clock)
    /\ rl_lock' = 0
    /\ lpc' = [lpc EXCEPT ![t] = "acquired"]
    /\ UNCHANGED <<pipelineVars, cacheVars, functionVars, validateVars, calls, clock, wake, started>>

\* SessionManager.get / head after the with statement was entered: the
\* request is sent; the thread is then free for its next request.
SendRequest(t) ==
    /\ lpc[t] = "acquired"
    /\ started' = Append(started, clock)
    /\ lpc' = [lpc EXCEPT ![t] = "idle"]
    /\ UNCHANGED <<pipelineVars, cacheVars, functionVars, validateVars, calls, timestamps, clock, rl_lock, wake, acquired>>

\* Time passes.
Tick ==
    /\ clock < MaxClock
    /\ clock' = clock + 1
    /\ UNCHANGED <<pipelineVars, cacheVars, functionVars, validateVars, calls, timestamps, rl_lock, lpc, wake, acquired, started>>

LimiterNext ==
    \/ \E t \in Threads : RateLimiterEnter(t)
    \/ \E t \in Threads : RateLimiterRecord(t)
    \/ \E t \in Threads : SendRequest(t)
    \/ Tick

LimiterSpec == LimiterInit /\ [][LimiterNext]_vars

\* How many of the instants of a log fall in the window [w, w + period).
InWindow(log, w) ==
    Cardinality({i \in 1..Len(log) : w <= log[i] /\ log[i] < w + rate_limit_period})

\* Every timestamp was recorded when fewer than `calls` earlier ones lay in
\* the trailing period.
RecordedUnderBudget ==
    \A i \in 1..Len(acquired) :
       Cardinality({j \in 1..(i - 1) : acquired[i] - acquired[j] < rate_limit_period})
          < calls

\* At most `calls` acquisitions in any window of length period.
AcquisitionsBounded ==
    \A w \in 0..MaxClock : InWindow(acquired, w) <= calls

\* With calls = 1 successive acquisitions are at least period apart.
SuccessiveApart ==
    calls = 1 =>
       \A i \in 2..Len(acquired) : acquired[i] - acquired[i - 1] >= rate_limit_period

\* C11 as stated: the acquisitions are recorded under the budget and are
\* at most `calls` in any window, and so are the starts of the requests.
C11_RequestStartsBounded ==
    /\ RecordedUnderBudget
    /\ AcquisitionsBounded
    /\ SuccessiveApart
    /\ \A w \in 0..MaxClock : InWindow(started, w) <= calls

\* C11 amended: the acquisitions are recorded under the budget, at most
\* `calls` of them fall in any window of length period, with calls = 1
\* they are at least period apart, and every request is sent at or after
\* its own acquisition (the sending itself is not spaced).
C11_AcquisitionsBounded ==
    /\ RecordedUnderBudget
    /\ AcquisitionsBounded
    /\ SuccessiveApart
    /\ \A k \in 1..Len(started) :
          /\ k <= Len(acquired)
          /\ acquired[k] <= started[k]

C11_Witness ==
    /\ calls = 1
    /\ Len(acquired) >= 2
    /\ acquired[2] - acquired[1] = rate_limit_period
    /\ Len(started) >= 2
    /\ \E t \in Threads : lpc[t] = "sleeping"

\* ------------------------------------------------- PDFCache, step by step
\* PDFCache.__init__ with _load_cache: the memory set is what the file
\* holds; no thread has called the cache yet.
CacheInit ==
    /\ loaded \in SUBSET {Doc}
    /\ memory_cache = loaded
    /\ cache_file = loaded
    /\ validate_pdf_content = TRUE
    /\ extract_metadata = FALSE
    /\ qpc = [q \in Queries |-> "submitted"]
    /\ search_failed = [q \in Queries |-> FALSE]
    /\ tasks = [q \in Queries |-> <<>>]
    /\ pdf_results = [q \in Queries |-> <<>>]
    /\ search_results = [q \in Queries |-> NoEntry]
    /\ workers = max_workers
    /\ no_cache = FALSE
    /\ LimiterIdle
    /\ CacheIdle
    /\ FunctionIdle
    /\ ValidateIdle

\* What the steps of the cache leave alone.
cacheRest == <<loaded, validate_pdf_content, extract_metadata, qpc, search_failed,
               tasks, pdf_results, search_results, workers, no_cache, limiterVars,
               functionVars, validateVars>>

\* A thread calls contains(url) or add(url) and arrives at `with self.lock`.
CacheCall(t, op, url) ==
    /\ cpc[t] = "idle"
    /\ cpc' = [cpc EXCEPT ![t] = op]
    /\ curl' = [curl EXCEPT ![t] = url]
    /\ UNCHANGED <<cacheRest, memory_cache, cache_file, cache_lock, write_failed>>

\* contains: the lock is acquired.
ContainsEnter(t) ==
    /\ cpc[t] = "call contains"
    /\ cache_lock = 0
    /\ cache_lock' = t
    /\ cpc' = [cpc EXCEPT ![t] = "contains"]
    /\ UNCHANGED <<cacheRest, memory_cache, cache_file, curl, write_failed>>

\* contains: the membership is read and the lock released.
ContainsReturn(t) ==
    /\ cpc[t] = "contains"
    /\ cache_lock' = 0
    /\ cpc' = [cpc EXCEPT ![t] = "idle"]
    /\ UNCHANGED <<cacheRest, memory_cache, cache_file, curl, write_failed>>

\* add entering its body without acquiring the lock.
AddEnterUnlocked(t) ==
    /\ cpc[t] = "call add"
    /\ cache_lock' = t
    /\ cpc' = [cpc EXCEPT ![t] = "add"]
    /\ UNCHANGED <<cacheRest, memory_cache, cache_file, curl, write_failed>>

\* add: the lock is acquired.
AddEnter(t) ==
    /\ cpc[t] = "call add"
    /\ cache_lock = 0
    /\ cache_lock' = t
    /\ cpc' = [cpc EXCEPT ![t] = "add"]
    /\ UNCHANGED <<cacheRest, memory_cache, cache_file, curl, write_failed>>

\* add replacing the set by the new url.
AddInsertReplaces(t) ==
    /\ cpc[t] = "add"
    /\ memory_cache' = {curl[t]}
    /\ cpc' = [cpc EXCEPT ![t] = "save"]
    /\ UNCHANGED <<cacheRest, cache_file, cache_lock, curl, write_failed>>

\* add: self.memory_cache.add(url)
AddInsert(t) ==
    /\ cpc[t] = "add"
    /\ memory_cache' = memory_cache \cup {curl[t]}
    /\ cpc' = [cpc EXCEPT ![t] = "save"]
    /\ UNCHANGED <<cacheRest, cache_file, cache_lock, curl, write_failed>>

\* _save_cache: open(self.cache_file, 'w') truncates the file.
SaveOpen(t) ==
    /\ cpc[t] = "save"
    /\ cache_file' = {}
    /\ cpc' = [cpc EXCEPT ![t] = "write"]
    /\ UNCHANGED <<cacheRest, memory_cache, cache_lock, curl, write_failed>>

\* _save_cache: open raises IOError; the warning is logged, the file is as
\* it was, add returns and the lock is released.
SaveOpenFails(t) ==
    /\ cpc[t] = "save"
    /\ write_failed' = TRUE
    /\ cache_lock' = 0
    /\ cpc' = [cpc EXCEPT ![t] = "idle"]
    /\ UNCHANGED <<cacheRest, memory_cache, cache_file, curl>>

\* _save_cache: every url of the set is written and the file closed; add
\* returns and the lock is released.
SaveWrite(t) ==
    /\ cpc[t] = "write"
    /\ cache_file' = memory_cache
    /\ cache_lock' = 0
    /\ cpc' = [cpc EXCEPT ![t] = "idle"]
    /\ UNCHANGED <<cacheRest, memory_cache, curl, write_failed>>

\* _save_cache: a write raises IOError after some of the lines; the
\* warning is logged, add returns and the lock is released.
SaveWriteFails(t) ==
    /\ cpc[t] = "write"
    /\ \E part \in (SUBSET memory_cache) \ {memory_cache} : cache_file' = part
    /\ write_failed' = TRUE
    /\ cache_lock' = 0
    /\ cpc' = [cpc EXCEPT ![t] = "idle"]
    /\ UNCHANGED <<cacheRest, memory_cache, curl>>

CacheNext ==
    \/ \E t \in Threads : \E url \in SearchURLs : CacheCall(t, "call contains", url)
    \/ \E t \in Threads : \E url \in SearchURLs : CacheCall(t, "call add", url)
    \/ \E t \in Threads : ContainsEnter(t)
    \/ \E t \in Threads : ContainsReturn(t)
    \/ \E t \in Threads : AddEnter(t)
    \/ \E t \in Threads : AddInsert(t)
    \/ \E t \in Threads : SaveOpen(t)
    \/ \E t \in Threads : SaveOpenFails(t)
    \/ \E t \in Threads : SaveWrite(t)
    \/ \E t \in Threads : SaveWriteFails(t)

CacheSpec == CacheInit /\ [][CacheNext]_vars

\* The thread is between acquiring and releasing PDFCache.lock.
InCache(t) ==
    cpc[t] \in {"contains", "add", "save", "write"}

\* The thread is inside the body of add.
InAdd(t) ==
    cpc[t] \in {"add", "save", "write"}

\* C12: the membership check, the insertion and the rewrite of the file
\* never overlap between threads, and whenever no add is in progress and
\* no write has failed the file holds exactly the URLs of the memory set.
C12_CacheMutualExclusion ==
    /\ \A t, u \in Threads : InCache(t) /\ InCache(u) => t = u
    /\ \A t \in Threads : InCache(t) => cache_lock = t
    /\ (~write_failed /\ \A t \in Threads : ~InAdd(t)) => cache_file = memory_cache

\* Two URLs have been added and written, one thread is checking membership
\* while another waits for the lock to add.
C12_Witness ==
    /\ ~write_failed
    /\ Cardinality(memory_cache \ loaded) >= 2
    /\ cache_file = memory_cache
    /\ \E t, u \in Threads : cpc[t] = "contains" /\ cpc[u] = "call add"

\* --------------------------------------------------- failing cache writes
\* The add of this future left the file without its url: the write failed.
WriteFailedFor(t) ==
    /\ t.added
    /\ t.url \notin cache_file

\* What _process_url had computed for the future's url before cache.add.
ComputedResults(t) ==
    IF Classify(t.url) = "direct"
    THEN (IF t.v = "ok" THEN <<DirectResult(t.url)>> ELSE <<>>)
    ELSE Scraped(t.links, Len(t.links), t.url)

\* The list holds the results of the future, next to each other.
Holds(list, results) ==
    \E k \in 0..Len(list) :
       /\ k + Len(results) <= Len(list)
       /\ SubSeq(list, k + 1, k + Len(results)) = results

\* C13: when the write of the file fails during add(url), add returns
\* without raising, url is in the memory set, the results computed for url
\* are kept and returned to the query, and every add of the run, earlier or
\* later, has its url in the memory set.
C13_WriteFailureNonFatal ==
    \A q \in Queries : \A i \in TaskIds(q) :
       LET t == tasks[q][i] IN
       /\ t.added => contains(t.url)
       /\ WriteFailedFor(t) =>
             /\ t.pc = "done"
             /\ ~t.raised
             /\ t.results = ComputedResults(t)
             /\ Returned(q) => Holds(pdf_results[q], t.results)

\* A query has returned the result of a URL whose add could not write the
\* file, and another URL was added in the same run.
C13_Witness ==
    \E q \in Queries : \E i \in TaskIds(q) :
       /\ Returned(q)
       /\ WriteFailedFor(tasks[q][i])
       /\ tasks[q][i].results # <<>>
       /\ Holds(pdf_results[q], tasks[q][i].results)
       /\ \E r \in Queries : \E j \in TaskIds(r) :
             /\ tasks[r][j].added
             /\ tasks[r][j].url # tasks[q][i].url
             /\ contains(tasks[r][j].url)

\* ------------------------------------------------ a query's future raises
\* The pipeline started with --workers 1.
OneWorkerInit ==
    RunInit(1, FALSE)

\* An exception leaves find_pdf_links: it is raised outside the function's
\* try block or inside its handler, and the query's future holds it.
FindPdfLinksRaises(q) ==
    /\ qpc[q] = "submitted"
    /\ WorkerFree({j \in 1..(q - 1) : qpc[j] \in {"submitted", "running"}},
                  Min(NQ, workers))
    /\ qpc' = [qpc EXCEPT ![q] = "raised"]
    /\ UNCHANGED <<others, loaded, memory_cache, cache_file, validate_pdf_content,
                   extract_metadata, search_failed, tasks, pdf_results, search_results>>

RaiseNext ==
    \/ Next
    \/ \E q \in Queries : FindPdfLinksRaises(q)

RaiseSpec == OneWorkerInit /\ [][RaiseNext]_vars

\* _perform_searches has left its loop over future_to_title.
Finished ==
    \A q \in Queries : qpc[q] = "reported"

\* C14: when the coordinator finishes, every query title has an entry in
\* the report, a list of results (empty for a query whose future raised).
C14_EveryTitleHasEntry ==
    Finished => \A q \in Queries : search_results[q] # NoEntry

\* ------------------------------------------------------ the worker pools
\* The _process_url futures of query q that a worker is running.
RunningUrlTasks(q) ==
    {i \in TaskIds(q) : tasks[q][i].pc \in {"direct", "page", "scrape"}}

\* The _check_direct_pdf futures of the scraped pages of query q that have
\* made a request and are not finished.
RunningLinkChecks(q) ==
    {<<i, k>> \in TaskIds(q) \X (1..Cardinality(PageHrefs)) :
        /\ k <= Len(tasks[q][i].links)
        /\ tasks[q][i].links[k].v \in InFlight}

\* C15: within one query the URL-processing tasks and the link validations
\* in flight, counted together, never exceed the pool size.
C15_InFlightWithinPool ==
    \A q \in Queries :
       Cardinality(RunningUrlTasks(q)) + Cardinality(RunningLinkChecks(q)) <= workers

\* -------------------------------------------------------------- --no-cache
\* The pipeline started with --workers 1 --no-cache.  _perform_searches
\* sets config.cache_file to None; the PDFCache was built in
\* SearchApplication.__init__ and keeps its own cache_file, so the steps of
\* the pipeline are the same.
NoCacheInit ==
    RunInit(1, TRUE)

NoCacheSpec == NoCacheInit /\ [][Next]_vars

\* C16: with --no-cache no search-result URL is skipped because it is in
\* the cache, and no URL is added to the cache or written to its file.
C16_NoCacheDisablesCaching ==
    no_cache =>
       /\ \A q \in Queries : \A i \in TaskIds(q) :
             /\ ~tasks[q][i].skipped
             /\ ~tasks[q][i].added
       /\ memory_cache = loaded
       /\ cache_file = loaded

\* ------------------------------------- link extraction and classification
\* href values a page can carry: relative and absolute, upper case, with a
\* query string or a fragment after the path, and with ".pdf" only inside
\* the query string or the fragment.
HrefSamples ==
    {<<"report", ".pdf">>,
     <<"scan", ".PDF">>,
     Doc,
     <<"about", ".html">>,
     <<"report", ".pdf", "?v=1">>,
     <<"view", ".html", "?file=a", ".pdf">>,
     <<"notes", ".html", "#x", ".pdf">>}

\* The pages the anchors are taken from.
BaseUrls ==
    {Page, <<Root, "index", ".html", "?p=2">>}

\* Search-result URLs handed to _process_url.
UrlSamples ==
    {Doc, Fake, Page,
     <<Root, "doc", ".pdf", "?v=1">>,
     <<Root, "doc", ".pdf", "#p2">>,
     <<Root, "view", ".html", "?file=a", ".pdf">>}

\* One page and one search result, before the functions are applied.
FunctionInit ==
    /\ PipelineIdle
    /\ LimiterIdle
    /\ CacheIdle
    /\ ValidateIdle
    /\ base_url \in BaseUrls
    /\ anchors \in SUBSET HrefSamples
    /\ pdf_urls = {NotCalled}
    /\ result_url \in UrlSamples
    /\ branch = "not called"

\* The loop of _scrape_page_for_pdfs over soup.find_all("a", href=True).
ExtractLinks ==
    /\ pdf_urls = {NotCalled}
    /\ pdf_urls' = ExtractPdfUrls(base_url, anchors)
    /\ UNCHANGED <<pipelineVars, limiterVars, cacheVars, validateVars, base_url, anchors,
                   result_url, branch>>

\* The test of _process_url on an uncached url.
ClassifyUrl ==
    /\ branch = "not called"
    /\ branch' = Classify(result_url)
    /\ UNCHANGED <<pipelineVars, limiterVars, cacheVars, validateVars, base_url, anchors,
                   pdf_urls, result_url>>

FunctionNext ==
    \/ ExtractLinks
    \/ ClassifyUrl

FunctionSpec == FunctionInit /\ [][FunctionNext]_vars

\* The token opens the query string or the fragment of a URL.
IsQueryOrFragment(tok) ==
    tok \in {"?v=1", "?file=a", "?p=2", "#x", "#p2"}

\* The tokens of a URL up to its query string or fragment.
RECURSIVE PathOf(_)
PathOf(s) ==
    IF s = <<>> \/ IsQueryOrFragment(Head(s)) THEN <<>>
    ELSE <<Head(s)>> \o PathOf(Tail(s))

\* The path component ends in ".pdf", whatever the case.
PathEndsPdf(s) ==
    LET path == PathOf(s) IN
    /\ path # <<>>
    /\ path[Len(path)] \in {".pdf", ".PDF"}

\* C17: the extraction returns exactly the anchors whose path ends in
\* ".pdf", each resolved against the base URL: absolute URLs only, none
\* that has ".pdf" only in its query string or fragment, and every one whose
\* path ends in ".pdf" also when a query string follows.
C17_LinksByPath ==
    pdf_urls # {NotCalled} =>
       /\ \A u \in pdf_urls : u[1] = Root /\ PathEndsPdf(u)
       /\ \A h \in anchors :
             PathEndsPdf(h) =>
                (IF h[1] = Root THEN h ELSE <<Root>> \o h) \in pdf_urls

\* C18: an uncached search-result URL whose path ends in ".pdf" is
\* validated directly, also with a query string or fragment after the
\* path; every other one is fetched and scraped.
C18_ClassifiedByPath ==
    branch # "not called" =>
       branch = (IF PathEndsPdf(result_url) THEN "direct" ELSE "page")

\* ------------------------------------------------------- the cache grows
\* C19: no step of contains or add, in any interleaving, removes a URL
\* from the memory set: what was loaded at construction or added earlier
\* is still there.
C19_CacheOnlyGrows ==
    /\ [](loaded \subseteq memory_cache)
    /\ [][memory_cache \subseteq memory_cache']_vars

\* The loaded URL and two added ones are in the memory set, after a write
\* of the file has failed, while a thread checks membership.
C19_Witness ==
    /\ loaded = {Doc}
    /\ Cardinality(memory_cache) >= 3
    /\ write_failed
    /\ \E t \in Threads : cpc[t] = "contains"

\* ------------------------------------------------------------ termination
\* The pipeline started with any pool size from 1 to Config's, the other
\* settings at Config's defaults.
AnyWorkersInit ==
    /\ \E w \in 1..max_workers : RunInit(w, FALSE)
    /\ validate_pdf_content
    /\ ~extract_metadata

\* Every thread that can take a step eventually takes one: the provider
\* call and every request return or raise, the pools start a queued future
\* when a worker is free, a waiting future.result() returns once the future
\* is done.
FairSpec == AnyWorkersInit /\ [][Next]_vars /\ WF_vars(Next)

C21_SourceRecorded ==
    \A q \in Queries : \A i \in TaskIds(q) :
       LET t == tasks[q][i] IN
       \A k \in 1..Len(t.results) :
          IF Classify(t.url) = "direct"
          THEN /\ t.results[k].source = "direct"
               /\ t.results[k].referring_page = <<>>
          ELSE /\ t.results[k].source = "scraped"
               /\ t.results[k].referring_page = t.url

\* --------------------------------------- one validation through the limiter
\* The URLs the threads validate: a PDF, a mislabeled page and a missing one.
ValidatedUrls == {Doc, Fake, Gone}

\* Each thread is about to run _check_direct_pdf for some URL, under some
\* settings, through the one SessionManager and its RateLimiter.
ValidateInit ==
    /\ loaded = {}
    /\ memory_cache = {}
    /\ cache_file = {}
    /\ \E c \in Configs :
          /\ validate_pdf_content = c[1]
          /\ extract_metadata = c[2]
    /\ qpc = [q \in Queries |-> "submitted"]
    /\ search_failed = [q \in Queries |-> FALSE]
    /\ tasks = [q \in Queries |-> <<>>]
    /\ pdf_results = [q \in Queries |-> <<>>]
    /\ search_results = [q \in Queries |-> NoEntry]
    /\ workers = max_workers
    /\ no_cache = FALSE
    /\ LimiterIdle
    /\ CacheIdle
    /\ FunctionIdle
    /\ vurl \in [Threads -> ValidatedUrls]
    /\ vpos = [t \in Threads |-> "pending"]
    /\ reqlog = <<>>

\* session_manager.head / get is called for the next request of the
\* validation and enters the limiter.
ValidateEnter(t) ==
    /\ vpos[t] \notin Final
    /\ RateLimiterEnter(t)

\* The request is sent after __enter__ returned, and answered: HEAD from
\* the first position, GET from the others; the validation moves on.
ValidateRequest(t) ==
    /\ lpc[t] = "acquired"
    /\ \E o \in CheckStep(vurl[t], vpos[t]) :
          vpos' = [vpos EXCEPT ![t] = o[1]]
    /\ reqlog' = Append(reqlog, [method |-> IF vpos[t] = "pending" THEN "HEAD" ELSE "GET",
                                 url |-> vurl[t], thread |-> t])
    /\ started' = Append(started, clock)
    /\ lpc' = [lpc EXCEPT ![t] = "idle"]
    /\ UNCHANGED <<pipelineVars, cacheVars, functionVars, vurl, calls, timestamps,
                   clock, rl_lock, wake, acquired>>

ValidateNext ==
    \/ \E t \in Threads : ValidateEnter(t)
    \/ \E t \in Threads : RateLimiterRecord(t)
    \/ \E t \in Threads : ValidateRequest(t)
    \/ Tick

ValidateSpec == ValidateInit /\ [][ValidateNext]_vars

\* The methods of the requests thread t has sent, in order.
Methods(t) ==
    LET log == SelectSeq(reqlog, LAMBDA e : e.thread = t)
    IN  [k \in 1..Len(log) |-> log[k].method]

\* C22: a GET for a URL is sent only after a HEAD for that URL, by the same
\* validation, was answered 200 with a PDF content type; every request sent
\* has used one acquisition of the limiter made before it; a validation
\* starts with HEAD, a URL rejected at the HEAD gets no GET, and with
\* content validation on (metadata off) a validated URL took HEAD then GET.
C22_HeadBeforeGet ==
    /\ \A k \in 1..Len(reqlog) :
          reqlog[k].method = "GET" =>
             /\ HeadAccepts(HeadResponse(reqlog[k].url))
             /\ \E j \in 1..(k - 1) :
                   /\ reqlog[j].method = "HEAD"
                   /\ reqlog[j].url = reqlog[k].url
                   /\ reqlog[j].thread = reqlog[k].thread
    /\ Len(reqlog) + Cardinality({t \in Threads : lpc[t] = "acquired"}) = Len(acquired)
    /\ \A k \in 1..Len(reqlog) : acquired[k] <= started[k]
    /\ \A t \in Threads :
          /\ Methods(t) # <<>> => Methods(t)[1] = "HEAD"
          /\ \A k \in 2..Len(Methods(t)) : Methods(t)[k] = "GET"
          /\ ~HeadAccepts(HeadResponse(vurl[t])) => Len(Methods(t)) <= 1
          /\ (vpos[t] = "ok" /\ validate_pdf_content /\ ~extract_metadata) =>
                Methods(t) = <<"HEAD", "GET">>

\* One thread has validated a PDF with HEAD then GET, content validation
\* on, while another was rejected at its HEAD and sent nothing more: three
\* acquisitions in all.
C22_Witness ==
    /\ validate_pdf_content
    /\ ~extract_metadata
    /\ Len(acquired) = 3
    /\ \E t, u \in Threads :
          /\ vpos[t] = "ok"
          /\ Methods(t) = <<"HEAD", "GET">>
          /\ vurl[u] = Gone
          /\ vpos[u] = "none"
          /\ Methods(u) = <<"HEAD">>

====
